---- MODULE Spec2Model ----
(***************************************************************************)
(* Real-time orders pipeline: the change-log poller (EventListener), the   *)
(* in-process notification bus (its subscriber list and publish round),    *)
(* the connection registry (WebSocketManager), the per-connection handler  *)
(* (websocket_endpoint) and the heartbeat loop.                            *)
(*                                                                         *)
(* All tasks run on one asyncio event loop: a step of the model is the     *)
(* code a task executes between two suspension points (await of a store    *)
(* query, of a transport send/receive, of gather, of sleep).               *)
(***************************************************************************)
EXTENDS Integers, Sequences, FiniteSets, TLC

\* ---------------------------------------------------------------- bounds
PollChanges == 2  \* change-log entries appended in a run of SpecPoll
ConnChanges == 1  \* change-log entries appended in a run of SpecConn
CastChanges == 1  \* change-log entries appended in a run of SpecCast
MaxFaults == 1    \* failures injected in a run of SpecPoll, SpecConn, SpecBeat
LifeFaults == 2   \* store queries that fail in a run of SpecLife
MaxBeats == 1     \* heartbeat ticks in a run
MaxSubOps == 1    \* subscribe/unsubscribe calls after startup
MaxPings == 1     \* ping frames a client sends in a run
MaxSubscribers == 2  \* longest subscriber list explored
LifeChanges == 2  \* change-log entries appended in a run of SpecLife
MaxCtlOps == 3    \* start(), stop() and shutdown calls after startup
BeatTicks == 2    \* heartbeat ticks in a run of SpecBeat
BacklogGood == 1  \* well-formed change-log entries in a run of SpecBacklog

\* ---------------------------------------------------- program constants
BatchLimit == 100          \* LIMIT of the poll query

Conns == {1, 2}            \* WebSocket objects
OrderIds == {1}            \* primary keys of the orders table
Status == {"pending", "shipped"}
Times == {1, 2}            \* values of order_changes.changed_at
Callbacks == {"broadcast_change", "cb"}
HbRound == 0                \* the round of send_heartbeat; round k > 0 is dispatch task k
RoundIds == 0..MaxSubscribers

Null == "null"

VARIABLES
    orders,              \* orders table: order id -> status, Null when no row
    order_changes,       \* order_changes table: sequence indexed by id
    faults,              \* failures injected so far (store, heartbeat)
    subscribers,         \* EventListener.subscribers
    subOps,              \* subscribe/unsubscribe calls so far
    running,             \* EventListener.running
    ppc,                 \* position of the _listen_loop task
    batch,               \* changes (ids, in query order) of the cycle
    idx,                 \* index in batch of the row being processed
    processed_ids,       \* processed_ids of the cycle
    notif,               \* notification of the row being published
    tasks,               \* dispatch tasks of the publish round in flight
    rowErr,              \* ids of the cycle whose construction raised
    notified,            \* ids of the cycle handed to _notify_subscribers
    active_connections,  \* WebSocketManager.active_connections
    connection_info,     \* key set of WebSocketManager.connection_info
    rounds,              \* _broadcast_message calls in flight
    hpc,                 \* position of each websocket_endpoint task
    alive,               \* transport of each WebSocket still open
    snapshot,            \* result of get_all_orders held by connect
    log,                 \* messages delivered to each WebSocket, in order
    hbpc,                \* position of the heartbeat_loop task
    beats,               \* heartbeat ticks so far
    pings,               \* ping frames so far
    ctl,                 \* position of the task that calls start() and stop()
    ctlOps,              \* start(), stop() and shutdown calls so far
    loops                \* _listen_loop tasks created and not yet finished

storeVars == <<orders, order_changes, faults>>
busVars == <<subscribers, subOps>>
pollVars == <<running, ppc, batch, idx, processed_ids, notif, tasks, rowErr, notified>>
regVars == <<active_connections, connection_info, rounds>>
connVars == <<hpc, alive, snapshot, log, pings>>
hbVars == <<hbpc, beats>>
ctlVars == <<ctl, ctlOps, loops>>
vars == <<storeVars, busVars, pollVars, regVars, connVars, hbVars, ctlVars>>

\* ------------------------------------------------------------- helpers
Range(s) == {s[i] : i \in 1..Len(s)}

Min(a, b) == IF a < b THEN a ELSE b


NoNotif == [change_id |-> 0, order_id |-> 0, operation |-> Null,
            order_data |-> Null, previous_data |-> Null]

\* ---------------------------------------------------------------- store
Unprocessed == {i \in 1..Len(order_changes) : ~order_changes[i].processed}

\* ORDER BY changed_at ASC, id ASC
\* ORDER BY id alone
Earlier_by_id(i, j) == i < j

Earlier(i, j) ==
    \/ order_changes[i].changed_at < order_changes[j].changed_at
    \/ /\ order_changes[i].changed_at = order_changes[j].changed_at
       /\ i < j

SortIds(S) ==
    LET before == [i \in S |-> Cardinality({j \in S : Earlier(j, i)})]
    IN [p \in 1..Cardinality(S) |-> CHOOSE i \in S : before[i] = p - 1]

get_unprocessed_changes_any_flag ==
    LET s == SortIds(1..Len(order_changes)) IN SubSeq(s, 1, Min(BatchLimit, Len(s)))

\* WHERE processed = FALSE ORDER BY changed_at ASC, id ASC LIMIT 100
get_unprocessed_changes ==
    LET s == SortIds(Unprocessed) IN SubSeq(s, 1, Min(BatchLimit, Len(s)))

\* a claim update over the fetched batch instead of the ids handed to it
mark_changes_processed_fetched(ids) ==
    [i \in 1..Len(order_changes) |->
        IF i \in Range(batch)
        THEN [order_changes[i] EXCEPT !.processed = TRUE]
        ELSE order_changes[i]]

mark_changes_processed(ids) ==
    [i \in 1..Len(order_changes) |->
        IF i \in Range(ids)
        THEN [order_changes[i] EXCEPT !.processed = TRUE]
        ELSE order_changes[i]]

get_order_by_id(o) == orders[o]

\* SELECT * FROM orders: the rows present, as (id, status) pairs
get_all_orders == {<<o, orders[o]>> : o \in {x \in OrderIds : orders[x] # Null}}

\* A store query fails (pool exhausted, connection lost).
StoreFails == faults' = faults + 1

OtherStatus(s) == CHOOSE t \in Status : t # s

\* the JSON text of a record, as the store writes it in old_data and new_data
JsonText(s) == IF s = Null THEN Null ELSE "{\"status\": \"" \o s \o "\"}"

json_loads(text) == CHOOSE s \in Status : JsonText(s) = text

\* A committed mutation of the orders table; the store appends the change
\* entry in the same transaction.
StoreMutate(o, op, t, bad) ==
    /\ LET old == orders[o]
           new == CASE op = "INSERT" -> "pending"
                    [] op = "UPDATE" -> OtherStatus(old)
                    [] OTHER -> Null
       IN /\ IF op = "INSERT" THEN old = Null ELSE old # Null
          /\ orders' = [orders EXCEPT ![o] = new]
          /\ order_changes' = Append(order_changes,
                [order_id |-> o, operation_type |-> op,
                 old_data |-> JsonText(old), new_data |-> JsonText(new),
                 changed_at |-> t, processed |-> FALSE,
                 malformed |-> bad])
    /\ UNCHANGED <<faults, busVars, pollVars, regVars, connVars, hbVars, ctlVars>>

\* One statement of the environment touches n records at once: the trigger
\* appends n change entries with the same changed_at whose payload text
\* does not parse.
StoreBulk(n, t) ==
    /\ orders[1] # Null
    /\ order_changes' = order_changes \o
          [i \in 1..n |->
              [order_id |-> 1, operation_type |-> "UPDATE",
               old_data |-> JsonText(orders[1]), new_data |-> JsonText(orders[1]),
               changed_at |-> t, processed |-> FALSE, malformed |-> TRUE]]
    /\ UNCHANGED <<orders, faults, busVars, pollVars, regVars, connVars, hbVars,
                   ctlVars>>

\* ------------------------------------------------------ notification bus
subscribe(subs, cb) == Append(subs, cb)

RECURSIVE RemoveFirst(_, _)
RemoveFirst(s, x) ==
    IF s = <<>> THEN <<>>
    ELSE IF Head(s) = x THEN Tail(s)
    ELSE <<Head(s)>> \o RemoveFirst(Tail(s), x)

\* unsubscribe whose absent case drops the last subscriber instead of
\* leaving the list alone
unsubscribe_drops_last(subs, cb) ==
    IF cb \in Range(subs) THEN RemoveFirst(subs, cb)
    ELSE SubSeq(subs, 1, Len(subs) - 1)

unsubscribe(subs, cb) == IF cb \in Range(subs) THEN RemoveFirst(subs, cb) ELSE subs

Subscribe(cb) ==
    /\ hbpc # "off"
    /\ subOps < MaxSubOps
    /\ Len(subscribers) < MaxSubscribers
    /\ subscribers' = subscribe(subscribers, cb)
    /\ subOps' = subOps + 1
    /\ UNCHANGED <<storeVars, pollVars, regVars, connVars, hbVars, ctlVars>>

Unsubscribe(cb) ==
    /\ hbpc # "off"
    /\ subOps < MaxSubOps
    /\ subscribers' = unsubscribe(subscribers, cb)
    /\ subOps' = subOps + 1
    /\ UNCHANGED <<storeVars, pollVars, regVars, connVars, hbVars, ctlVars>>

\* ---------------------------------------------------------------- poller
Settled == {"ok", "exc", "nocreate"}

DispatchSet_by_callback(subs) ==
    {k \in 1..Len(subs) : \A j \in 1..(k - 1) : subs[j] # subs[k]}

\* The dispatch set of a publish round: one task per member of the copy of
\* the subscriber list; calling a callback may itself raise, which is
\* caught and leaves that member without a task.
DispatchSet(subs) == 1..Len(subs)

TaskChoices(subs) ==
    {t \in [DispatchSet(subs) -> [cb : Callbacks, st : {"ready", "nocreate"}]] :
        \A k \in DispatchSet(subs) :
            /\ t[k].cb = subs[k]
            /\ t[k].st = "nocreate" => subs[k] = "cb"}

\* Next row of the batch, or the end of the for loop: the claim update
\* when processed_ids is not empty, the sleep otherwise.
Advance(pids) ==
    /\ processed_ids' = pids
    /\ batch' = batch
    /\ IF idx < Len(batch)
       THEN idx' = idx + 1 /\ ppc' = "row"
       ELSE idx' = idx /\ ppc' = IF pids # <<>> THEN "mark" ELSE "sleep"

\* OrderChange.from_db_row of the row with the given id
from_db_row(id) ==
    LET row == order_changes[id]
    IN [id |-> id, order_id |-> row.order_id,
        operation_type |-> row.operation_type,
        old_data |-> IF row.old_data # Null THEN json_loads(row.old_data) ELSE Null,
        new_data |-> IF row.new_data # Null THEN json_loads(row.new_data) ELSE Null,
        changed_at |-> row.changed_at]

OrderStatus == {"pending", "shipped", "delivered"}

enrich_raises_on_miss(order_row) == order_row = Null

\* _create_notification: Order(**order_row) is built only when the query
\* found a row, and raises when the row does not validate; a miss raises
\* nothing and leaves order_data None
enrich_raises(order_row) == order_row # Null /\ order_row \notin OrderStatus

_create_notification_current(change, order_data) ==
    [change_id |-> change.id, order_id |-> change.order_id,
     operation |-> change.operation_type,
     order_data |-> get_order_by_id(change.order_id),
     previous_data |-> change.old_data]

_create_notification_new_data(change, order_data) ==
    [change_id |-> change.id, order_id |-> change.order_id,
     operation |-> change.operation_type,
     order_data |-> IF order_data = Null THEN change.new_data ELSE order_data,
     previous_data |-> change.old_data]

_create_notification(change, order_data) ==
    [change_id |-> change.id, order_id |-> change.order_id,
     operation |-> change.operation_type,
     order_data |-> order_data, previous_data |-> change.old_data]

processed_after_notify_if_delivered(pids, id, ts) ==
    IF \E k \in DOMAIN ts : ts[k].st = "exc" THEN pids ELSE Append(pids, id)

\* _listen_loop: _notify_subscribers has returned with the dispatch results
\* ts; the row's id is appended whatever they are
processed_after_notify(pids, id, ts) == Append(pids, id)

processed_after_error_appended(pids, id) == Append(pids, id)

\* _listen_loop: the row's except branch logs and leaves processed_ids alone
processed_after_error(pids, id) == pids

gather_first_exception(ts) ==
    \/ \A k \in DOMAIN ts : ts[k].st \in Settled
    \/ \E k \in DOMAIN ts : ts[k].st = "exc"

\* gather(*tasks, return_exceptions=True) returns once every task is done,
\* with the exceptions as results
gather(ts) == \A k \in DOMAIN ts : ts[k].st \in Settled

\* _notify_subscribers up to its await of gather
\* _notify_subscribers without the early return on an empty subscriber list
Publish_always_gathers(n) ==
    /\ notified' = Append(notified, n.change_id)
    /\ notif' = n
    /\ tasks' \in TaskChoices(subscribers)
    /\ ppc' = "gather"
    /\ UNCHANGED <<idx, processed_ids, batch>>

Publish(n) ==
    /\ notified' = Append(notified, n.change_id)
    /\ IF subscribers = <<>>
       THEN /\ notif' = n
            /\ tasks' = <<>>
            /\ Advance(processed_after_notify(processed_ids, n.change_id, <<>>))
       ELSE /\ notif' = n
            /\ tasks' \in TaskChoices(subscribers)
            /\ ppc' = "gather"
            /\ UNCHANGED <<idx, processed_ids, batch>>

Start_unconditional == running' = TRUE /\ ppc' = "fetch" /\ loops' = loops + 1

\* start: a no-op while running, otherwise one new _listen_loop task
Start ==
    IF running
    THEN UNCHANGED <<running, ppc, loops>>
    ELSE running' = TRUE /\ ppc' = "fetch" /\ loops' = loops + 1

\* lifespan startup: subscribe the registry, start the poller, create the
\* heartbeat task
Startup ==
    /\ hbpc = "off"
    /\ subscribers' = subscribe(subscribers, "broadcast_change")
    /\ Start
    /\ hbpc' = "sleep"
    /\ UNCHANGED <<storeVars, subOps, batch, idx, processed_ids, notif, tasks,
                   rowErr, notified, regVars, connVars, beats, ctl, ctlOps>>

\* _listen_loop: get_unprocessed_changes returns
PollFetch ==
    /\ ppc = "fetch"
    /\ batch' = get_unprocessed_changes
    /\ processed_ids' = <<>>
    /\ rowErr' = {}
    /\ notified' = <<>>
    /\ idx' = 1
    /\ notif' = NoNotif
    /\ tasks' = <<>>
    /\ ppc' = IF batch' # <<>> THEN "row" ELSE "sleep"
    /\ UNCHANGED <<storeVars, busVars, running, regVars, connVars, hbVars, ctlVars>>

PollFetchFail_fatal ==
    /\ ppc = "fetch"
    /\ StoreFails
    /\ ppc' = "exited"
    /\ loops' = loops - 1
    /\ UNCHANGED <<orders, order_changes, busVars, running, batch, idx,
                   processed_ids, notif, tasks, rowErr, notified, regVars,
                   connVars, hbVars, ctl, ctlOps>>

\* _listen_loop: get_unprocessed_changes raises; the outer handler pauses
PollFetchFail ==
    /\ ppc = "fetch"
    /\ StoreFails
    /\ ppc' = "pause"
    /\ UNCHANGED <<orders, order_changes, busVars, running, batch, idx,
                   processed_ids, notif, tasks, rowErr, notified, regVars,
                   connVars, hbVars, ctlVars>>

\* _listen_loop: from_db_row of the next row, and _create_notification up
\* to its store query (a DELETE has none and goes on to publish)
PollRow ==
    /\ ppc = "row"
    /\ LET id == batch[idx]
           row == order_changes[id]
       IN IF row.malformed
          THEN /\ rowErr' = rowErr \cup {id}
               /\ Advance(processed_after_error(processed_ids, id))
               /\ UNCHANGED <<notif, tasks, notified>>
          ELSE IF row.operation_type \in {"INSERT", "UPDATE"}
          THEN /\ ppc' = "enrich"
               /\ UNCHANGED <<batch, idx, processed_ids, notif, tasks, rowErr,
                              notified>>
          ELSE /\ Publish(_create_notification(from_db_row(id), Null))
               /\ UNCHANGED rowErr
    /\ UNCHANGED <<storeVars, busVars, running, regVars, connVars, hbVars, ctlVars>>

\* _create_notification: get_order_by_id returns; the row is published
PollEnrich ==
    /\ ppc = "enrich"
    /\ LET change == from_db_row(batch[idx])
           order_row == get_order_by_id(change.order_id)
       IN IF enrich_raises(order_row)
          THEN /\ rowErr' = rowErr \cup {change.id}
               /\ Advance(processed_after_error(processed_ids, change.id))
               /\ UNCHANGED <<notif, tasks, notified>>
          ELSE /\ Publish(_create_notification(change, order_row))
               /\ UNCHANGED rowErr
    /\ UNCHANGED <<storeVars, busVars, running, regVars, connVars, hbVars,
                   ctlVars>>

\* _create_notification: get_order_by_id raises; the row's handler logs it
PollEnrichFail ==
    /\ ppc = "enrich"
    /\ StoreFails
    /\ rowErr' = rowErr \cup {batch[idx]}
    /\ Advance(processed_after_error(processed_ids, batch[idx]))
    /\ UNCHANGED <<orders, order_changes, busVars, running, notif, tasks,
                   notified, regVars, connVars, hbVars, ctlVars>>

\* _listen_loop: mark_changes_processed returns
PollMark ==
    /\ ppc = "mark"
    /\ order_changes' = mark_changes_processed(processed_ids)
    /\ ppc' = "sleep"
    /\ UNCHANGED <<orders, faults, busVars, running, batch, idx, processed_ids,
                   notif, tasks, rowErr, notified, regVars, connVars, hbVars, ctlVars>>

\* a claim update that marks the ids and raises afterwards
PollMarkFail_applied ==
    /\ ppc = "mark"
    /\ StoreFails
    /\ order_changes' = mark_changes_processed(processed_ids)
    /\ ppc' = "pause"
    /\ UNCHANGED <<orders, busVars, running, batch, idx,
                   processed_ids, notif, tasks, rowErr, notified, regVars,
                   connVars, hbVars, ctlVars>>

\* _listen_loop: mark_changes_processed raises; the outer handler pauses
PollMarkFail ==
    /\ ppc = "mark"
    /\ StoreFails
    /\ ppc' = "pause"
    /\ UNCHANGED <<orders, order_changes, busVars, running, batch, idx,
                   processed_ids, notif, tasks, rowErr, notified, regVars,
                   connVars, hbVars, ctlVars>>

\* _listen_loop: a sleep is over; the while condition is read again
PollSleep ==
    /\ ppc \in {"sleep", "pause"}
    /\ IF running
       THEN ppc' = "fetch" /\ loops' = loops
       ELSE ppc' = "exited" /\ loops' = loops - 1
    /\ UNCHANGED <<storeVars, busVars, running, batch, idx, processed_ids,
                   notif, tasks, rowErr, notified, regVars, connVars, hbVars,
                   ctl, ctlOps>>

\* ------------------------------------------------------ client messages
WebSocketMessage(type) ==
    [type |-> type, change_id |-> 0, operation |-> Null, order_data |-> Null,
     previous_data |-> Null, orders |-> {}, text |-> Null, server_time |-> 0]

OrderChangeMessage(n) ==
    [WebSocketMessage("order_change") EXCEPT
        !.change_id = n.change_id, !.operation = n.operation,
        !.order_data = n.order_data, !.previous_data = n.previous_data]

InitialDataMessage(rows) == [WebSocketMessage("initial_data") EXCEPT !.orders = rows]

ErrorMessage_empty_snapshot == [WebSocketMessage("initial_data") EXCEPT !.orders = {}]

ErrorMessage == [WebSocketMessage("error") EXCEPT !.text = "Failed to load initial data"]

\* send_heartbeat: the message carries the server time of its tick
HeartbeatMessage == [WebSocketMessage("heartbeat") EXCEPT !.server_time = beats']

PongMessage == [WebSocketMessage("heartbeat") EXCEPT !.text = "pong"]

\* websocket.send_text: delivered when the transport is open, raises otherwise
Deliver(c, m) == log' = [log EXCEPT ![c] = Append(@, m)]

\* ------------------------------------------------- connection registry
disconnect_info_only(ws) ==
    /\ active_connections' = active_connections
    /\ connection_info' = connection_info \ ws

\* a disconnect that forgets the metadata entry
disconnect_keeps_info(ws) ==
    /\ active_connections' = active_connections \ ws
    /\ connection_info' = connection_info

\* disconnect applied to each member of ws
disconnect(ws) ==
    /\ active_connections' = active_connections \ ws
    /\ connection_info' = connection_info \ (ws \cap active_connections)

\* get_connection_stats: the size of the live set and one entry per
\* metadata key; it reads the registry and assigns nothing
get_connection_stats ==
    [total_connections |-> Cardinality(active_connections),
     connections |-> connection_info]

NoRound == [on |-> FALSE, snap |-> {}, pending |-> {}, failed |-> {},
            message_json |-> WebSocketMessage(Null)]

BroadcastTargets_first ==
    IF active_connections = {} THEN {}
    ELSE {CHOOSE c \in active_connections : \A d \in active_connections : c <= d}

\* a registry whose rounds leave out the connections that have not been
\* sent their snapshot yet, as if connect registered them afterwards
BroadcastTargets_settled ==
    {c \in active_connections : hpc[c] \notin {"snapshot", "send_initial"}}

\* _broadcast_message up to its await of gather: the copy of the live set
BroadcastTargets == active_connections

\* the message is serialized once, before the delivery attempts are created
BeginRound(message) ==
    [on |-> TRUE, snap |-> BroadcastTargets, pending |-> BroadcastTargets,
     failed |-> {}, message_json |-> message]

RoundMessage_per_send(r) ==
    [rounds[r].message_json EXCEPT !.server_time = @ + Cardinality(rounds[r].pending)]

\* the payload of a delivery attempt of round r
RoundMessage(r) == rounds[r].message_json

RoundRemovals_whole_copy(r) == rounds[r].snap

RoundRemovals_none(r) == {}

RoundRemovals_if_all_failed(r) ==
    IF rounds[r].failed = rounds[r].snap THEN rounds[r].failed ELSE {}

\* the connections a finished round hands to disconnect
RoundRemovals(r) == rounds[r].failed

send_failure_removals_eager(c) == {c}

\* _send_message_safe only records a failed connection in
\* disconnected_clients: it hands nothing to disconnect itself
send_failure_removals(c) == {}

\* A dispatch task of the publish round runs: a plain callback returns or
\* raises; broadcast_change returns at once with no connections, otherwise
\* starts a broadcast round.
TaskRun(k) ==
    /\ ppc = "gather"
    /\ k \in DOMAIN tasks
    /\ tasks[k].st = "ready"
    /\ IF tasks[k].cb = "broadcast_change"
       THEN IF active_connections = {}
            THEN /\ tasks' = [tasks EXCEPT ![k].st = "ok"]
                 /\ UNCHANGED rounds
            ELSE /\ tasks' = [tasks EXCEPT ![k].st = "sending"]
                 /\ rounds' = [rounds EXCEPT ![k] = BeginRound(OrderChangeMessage(notif))]
       ELSE /\ \E res \in {"ok", "exc"} : tasks' = [tasks EXCEPT ![k].st = res]
            /\ UNCHANGED rounds
    /\ UNCHANGED <<storeVars, busVars, running, ppc, batch, idx, processed_ids,
                   notif, rowErr, notified, active_connections, connection_info,
                   connVars, hbVars, ctlVars>>

\* _send_message_safe for one member of the round's copy
RoundSend(r, c) ==
    /\ rounds[r].on
    /\ c \in rounds[r].pending
    /\ IF alive[c]
       THEN /\ Deliver(c, RoundMessage(r))
            /\ rounds' = [rounds EXCEPT ![r].pending = @ \ {c}]
            /\ UNCHANGED <<active_connections, connection_info>>
       ELSE /\ UNCHANGED log
            /\ rounds' = [rounds EXCEPT ![r].pending = @ \ {c},
                                        ![r].failed = @ \cup {c}]
            /\ disconnect(send_failure_removals(c))
    /\ UNCHANGED <<storeVars, busVars, pollVars, hpc, alive, snapshot, pings,
                   hbVars, ctlVars>>

\* gather has returned: clean up the failed connections and return
RoundFinish(r) ==
    /\ rounds[r].on
    /\ rounds[r].pending = {}
    /\ disconnect(RoundRemovals(r))
    /\ rounds' = [rounds EXCEPT ![r] = NoRound]
    /\ IF r = HbRound
       THEN hbpc' = "sleep" /\ UNCHANGED tasks
       ELSE tasks' = [tasks EXCEPT ![r].st = "ok"] /\ UNCHANGED hbpc
    /\ UNCHANGED <<storeVars, busVars, running, ppc, batch, idx, processed_ids,
                   notif, rowErr, notified, connVars, beats, ctlVars>>

\* gather of the publish round has returned
GatherDone ==
    /\ ppc = "gather"
    /\ gather(tasks)
    /\ Advance(processed_after_notify(processed_ids, notif.change_id, tasks))
    /\ UNCHANGED <<storeVars, busVars, running, notif, tasks, rowErr, notified,
                   regVars, connVars, hbVars, ctlVars>>

\* ------------------------------------------------------------ heartbeat
HeartbeatTick ==
    /\ hbpc = "sleep"
    /\ beats' = beats + 1
    /\ IF active_connections = {}
       THEN UNCHANGED <<hbpc, rounds>>
       ELSE /\ hbpc' = "broadcast"
            /\ rounds' = [rounds EXCEPT ![HbRound] = BeginRound(HeartbeatMessage)]
    /\ UNCHANGED <<storeVars, busVars, pollVars, active_connections,
                   connection_info, connVars, ctlVars>>

\* heartbeat_loop: send_heartbeat raises something other than a
\* cancellation; the loop logs it and goes back to its sleep
HeartbeatError ==
    /\ hbpc = "sleep"
    /\ faults' = faults + 1
    /\ hbpc' = "sleep"
    /\ UNCHANGED <<orders, order_changes, busVars, pollVars, regVars, connVars,
                   beats, ctlVars>>

\* ------------------------------------------------------- cancellation
\* the delivery attempts of the rounds R that are still pending on an open
\* transport
AbortedSends(R) ==
    {p \in R \X Conns : rounds[p[1]].on /\ p[2] \in rounds[p[1]].pending /\ alive[p[2]]}

RECURSIVE Flushed(_, _, _)
\* the messages of the attempts D addressed to c, from round r upwards
Flushed(c, D, r) ==
    IF r > MaxSubscribers THEN <<>>
    ELSE (IF <<r, c>> \in D THEN <<RoundMessage(r)>> ELSE <<>>) \o Flushed(c, D, r + 1)

\* Task.cancel() reaches the _broadcast_message calls R through their
\* gather: every pending send task is cancelled (its frame may already be
\* written to the transport), CancelledError leaves the call before its
\* clean-up, and the failures it had recorded are dropped with it.
CancelRounds(R) ==
    /\ rounds' = [r \in RoundIds |-> IF r \in R THEN NoRound ELSE rounds[r]]
    /\ \E D \in SUBSET AbortedSends(R) :
          log' = [c \in Conns |-> log[c] \o Flushed(c, D, 0)]

\* Task.cancel() on the _listen_loop task: CancelledError is raised at the
\* await the task is suspended in.  In gather it first cancels the dispatch
\* tasks; in mark_changes_processed the UPDATE may already have run.
CancelLoop ==
    /\ ppc' = "cancelled"
    /\ CASE ppc = "gather" ->
              /\ tasks' = [k \in DOMAIN tasks |->
                              IF tasks[k].st \in Settled THEN tasks[k]
                              ELSE [tasks[k] EXCEPT !.st = "cancelled"]]
              /\ CancelRounds(DOMAIN tasks)
              /\ UNCHANGED order_changes
         [] ppc = "mark" ->
              /\ order_changes' \in {order_changes,
                                     mark_changes_processed(processed_ids)}
              /\ UNCHANGED <<tasks, rounds, log>>
         [] OTHER -> UNCHANGED <<order_changes, tasks, rounds, log>>

\* a later call of start
StartCall ==
    /\ hbpc # "off"
    /\ ctl = "idle"
    /\ ctlOps < MaxCtlOps
    /\ ctlOps' = ctlOps + 1
    /\ Start
    /\ UNCHANGED <<storeVars, busVars, batch, idx, processed_ids, notif, tasks,
                   rowErr, notified, regVars, connVars, hbVars, ctl>>

\* stop up to its await of the task: a no-op when the poller is not
\* running, otherwise the flag is cleared and the task cancelled
StopCall ==
    /\ hbpc # "off"
    /\ ctl = "idle"
    /\ ctlOps < MaxCtlOps
    /\ ctlOps' = ctlOps + 1
    /\ IF running
       THEN /\ running' = FALSE
            /\ CancelLoop
            /\ ctl' = "stop"
       ELSE UNCHANGED <<running, ppc, order_changes, tasks, rounds, log, ctl>>
    /\ UNCHANGED <<orders, faults, busVars, batch, idx, processed_ids, notif,
                   rowErr, notified, active_connections, connection_info, hpc,
                   alive, snapshot, pings, hbVars, loops>>

\* _listen_loop: CancelledError arrives; the task ends
PollCancelled ==
    /\ ppc = "cancelled"
    /\ ppc' = "exited"
    /\ loops' = loops - 1
    /\ UNCHANGED <<storeVars, busVars, running, batch, idx, processed_ids,
                   notif, tasks, rowErr, notified, regVars, connVars, hbVars,
                   ctl, ctlOps>>

task_done_at_once == TRUE

\* the awaited _listen_loop task is done
task_done == ppc = "exited"

\* stop: its await of the task is over, the CancelledError is swallowed
StopReturn ==
    /\ ctl = "stop"
    /\ task_done
    /\ ctl' = "idle"
    /\ UNCHANGED <<storeVars, busVars, pollVars, regVars, connVars, hbVars,
                   ctlOps, loops>>

\* lifespan shutdown: the heartbeat task is cancelled and awaited
Shutdown ==
    /\ ctl = "idle"
    /\ hbpc \in {"sleep", "broadcast"}
    /\ ctlOps < MaxCtlOps
    /\ ctlOps' = ctlOps + 1
    /\ hbpc' = "cancelled"
    /\ ctl' = "shutdown"
    /\ IF hbpc = "broadcast"
       THEN CancelRounds({HbRound})
       ELSE UNCHANGED <<rounds, log>>
    /\ UNCHANGED <<storeVars, busVars, pollVars, active_connections,
                   connection_info, hpc, alive, snapshot, pings, beats, loops>>

\* heartbeat_loop: CancelledError arrives, the loop breaks and the await in
\* lifespan returns
HeartbeatExit ==
    /\ hbpc = "cancelled"
    /\ hbpc' = "exited"
    /\ ctl' = "idle"
    /\ UNCHANGED <<storeVars, busVars, pollVars, regVars, connVars, beats,
                   ctlOps, loops>>

\* ------------------------------------------------- connection handler
\* connect: accept, then register
ConnAccept(c) ==
    /\ hbpc # "off"
    /\ hpc[c] = "init"
    /\ active_connections' = active_connections \cup {c}
    /\ connection_info' = connection_info \cup {c}
    /\ hpc' = [hpc EXCEPT ![c] = "snapshot"]
    /\ UNCHANGED <<storeVars, busVars, pollVars, rounds, alive, snapshot, log,
                   pings, hbVars, ctlVars>>

\* _send_initial_data: get_all_orders returns
ConnSnapshot(c) ==
    /\ hpc[c] = "snapshot"
    /\ snapshot' = [snapshot EXCEPT ![c] = get_all_orders]
    /\ hpc' = [hpc EXCEPT ![c] = "send_initial"]
    /\ UNCHANGED <<storeVars, busVars, pollVars, regVars, alive, log, pings,
                   hbVars, ctlVars>>

\* _send_initial_data: get_all_orders raises
ConnSnapshotFail(c) ==
    /\ hpc[c] = "snapshot"
    /\ StoreFails
    /\ hpc' = [hpc EXCEPT ![c] = "send_error"]
    /\ UNCHANGED <<orders, order_changes, busVars, pollVars, regVars, alive,
                   snapshot, log, pings, hbVars, ctlVars>>

\* _send_initial_data: send of the initial_data message
ConnSendInitial(c) ==
    /\ hpc[c] = "send_initial"
    /\ IF alive[c]
       THEN /\ Deliver(c, InitialDataMessage(snapshot[c]))
            /\ hpc' = [hpc EXCEPT ![c] = "recv"]
       ELSE /\ UNCHANGED log
            /\ hpc' = [hpc EXCEPT ![c] = "send_error"]
    /\ snapshot' = [snapshot EXCEPT ![c] = {}]
    /\ UNCHANGED <<storeVars, busVars, pollVars, regVars, alive, pings, hbVars, ctlVars>>

\* _send_initial_data: the except branch; a failure of this send leaves
\* connect and websocket_endpoint with the exception
ConnSendError(c) ==
    /\ hpc[c] = "send_error"
    /\ IF alive[c]
       THEN /\ Deliver(c, ErrorMessage)
            /\ hpc' = [hpc EXCEPT ![c] = "recv"]
       ELSE /\ UNCHANGED log
            /\ hpc' = [hpc EXCEPT ![c] = "crashed"]
    /\ UNCHANGED <<storeVars, busVars, pollVars, regVars, alive, snapshot,
                   pings, hbVars, ctlVars>>

\* websocket_endpoint: receive_text returns a ping frame
ConnReceivePing(c) ==
    /\ hpc[c] = "recv"
    /\ alive[c]
    /\ pings < MaxPings
    /\ pings' = pings + 1
    /\ hpc' = [hpc EXCEPT ![c] = "pong"]
    /\ UNCHANGED <<storeVars, busVars, pollVars, regVars, alive, snapshot, log,
                   hbVars, ctlVars>>

\* websocket_endpoint: receive_text raises WebSocketDisconnect (the client
\* has closed)
ConnReceiveClosed(c) ==
    /\ hpc[c] = "recv"
    /\ ~alive[c]
    /\ disconnect({c})
    /\ hpc' = [hpc EXCEPT ![c] = "closed"]
    /\ UNCHANGED <<storeVars, busVars, pollVars, rounds, alive, snapshot, log,
                   pings, hbVars, ctlVars>>

\* websocket_endpoint: receive_text raises another exception on an open
\* transport (a frame that carries no text)
ConnReceiveError(c) ==
    /\ hpc[c] = "recv"
    /\ alive[c]
    /\ disconnect({c})
    /\ hpc' = [hpc EXCEPT ![c] = "closed"]
    /\ UNCHANGED <<storeVars, busVars, pollVars, rounds, alive, snapshot, log,
                   pings, hbVars, ctlVars>>

\* websocket_endpoint: the pong reply; a failure is swallowed
ConnPong(c) ==
    /\ hpc[c] = "pong"
    /\ IF alive[c] THEN Deliver(c, PongMessage) ELSE UNCHANGED log
    /\ hpc' = [hpc EXCEPT ![c] = "recv"]
    /\ UNCHANGED <<storeVars, busVars, pollVars, regVars, alive, snapshot,
                   pings, hbVars, ctlVars>>

\* the client closes or its transport dies
ClientDrop(c) ==
    /\ hpc[c] \in {"snapshot", "send_initial", "send_error", "recv", "pong"}
    /\ alive[c]
    /\ alive' = [alive EXCEPT ![c] = FALSE]
    /\ UNCHANGED <<storeVars, busVars, pollVars, regVars, hpc, snapshot, log,
                   pings, hbVars, ctlVars>>

\* -------------------------------------------------------- specification
Init ==
    /\ orders = [o \in OrderIds |-> "pending"]
    /\ order_changes = <<>>
    /\ faults = 0
    /\ subscribers = <<>>
    /\ subOps = 0
    /\ running = FALSE
    /\ ppc = "stopped"
    /\ batch = <<>>
    /\ idx = 1
    /\ processed_ids = <<>>
    /\ notif = NoNotif
    /\ tasks = <<>>
    /\ rowErr = {}
    /\ notified = <<>>
    /\ active_connections = {}
    /\ connection_info = {}
    /\ rounds = [r \in RoundIds |-> NoRound]
    /\ hpc = [c \in Conns |-> "init"]
    /\ alive = [c \in Conns |-> TRUE]
    /\ snapshot = [c \in Conns |-> {}]
    /\ log = [c \in Conns |-> <<>>]
    /\ hbpc = "off"
    /\ beats = 0
    /\ pings = 0
    /\ ctl = "idle"
    /\ ctlOps = 0
    /\ loops = 0

\* Connections are numbered in the order in which they are accepted.
InOrder(c) == \A d \in Conns : d < c => hpc[d] # "init"

\* The poller slice: a change log with malformed rows and arbitrary
\* timestamps, store failures in every query of the poll loop, plain
\* subscribers coming and going, and one client whose transport may die.
NextPoll ==
    \/ Startup
    \/ \E o \in OrderIds, op \in {"INSERT", "UPDATE", "DELETE"}, t \in Times,
          bad \in BOOLEAN :
          Len(order_changes) < PollChanges /\ StoreMutate(o, op, t, bad)
    \/ \E cb \in Callbacks : Subscribe(cb)
    \/ \E cb \in Callbacks : Unsubscribe(cb)
    \/ PollFetch
    \/ faults < MaxFaults /\ PollFetchFail
    \/ PollRow
    \/ PollEnrich
    \/ faults < MaxFaults /\ PollEnrichFail
    \/ PollMark
    \/ faults < MaxFaults /\ PollMarkFail
    \/ PollSleep
    \/ \E k \in 1..MaxSubscribers : TaskRun(k)
    \/ GatherDone
    \/ \E r \in 1..MaxSubscribers : RoundSend(r, 1)
    \/ \E r \in 1..MaxSubscribers : RoundFinish(r)
    \/ ConnAccept(1)
    \/ ConnSnapshot(1)
    \/ ConnSendInitial(1)
    \/ ConnSendError(1)
    \/ ClientDrop(1)

SpecPoll == Init /\ [][NextPoll]_vars

\* The connection slice: connect and the connection handler of two clients
\* against the poll loop publishing one well-formed change.
NextConn ==
    \/ Startup
    \/ \E o \in OrderIds, op \in {"UPDATE", "DELETE"} :
          Len(order_changes) < ConnChanges /\ StoreMutate(o, op, 1, FALSE)
    \/ PollFetch
    \/ PollRow
    \/ PollEnrich
    \/ PollMark
    \/ PollSleep
    \/ \E k \in 1..MaxSubscribers : TaskRun(k)
    \/ GatherDone
    \/ \E r \in 1..MaxSubscribers, c \in Conns : RoundSend(r, c)
    \/ \E r \in 1..MaxSubscribers : RoundFinish(r)
    \/ \E c \in Conns : InOrder(c) /\ ConnAccept(c)
    \/ \E c \in Conns : ConnSnapshot(c)
    \/ \E c \in Conns : faults < MaxFaults /\ ConnSnapshotFail(c)
    \/ \E c \in Conns : ConnSendInitial(c)
    \/ \E c \in Conns : ConnSendError(c)
    \/ \E c \in Conns : ConnReceivePing(c)
    \/ \E c \in Conns : ConnPong(c)
    \/ \E c \in Conns : ConnReceiveClosed(c)
    \/ \E c \in Conns : ConnReceiveError(c)
    \/ \E c \in Conns : ClientDrop(c)

SpecConn == Init /\ [][NextConn]_vars

\* The broadcast slice: order_change rounds and heartbeat rounds, which may
\* overlap, over two clients that connect, die and are disconnected.
NextCast ==
    \/ Startup
    \/ \E o \in OrderIds, op \in {"UPDATE", "DELETE"} :
          Len(order_changes) < CastChanges /\ StoreMutate(o, op, 1, FALSE)
    \/ PollFetch
    \/ PollRow
    \/ PollEnrich
    \/ PollMark
    \/ PollSleep
    \/ \E k \in 1..MaxSubscribers : TaskRun(k)
    \/ GatherDone
    \/ \E r \in RoundIds, c \in Conns : RoundSend(r, c)
    \/ \E r \in RoundIds : RoundFinish(r)
    \/ beats < MaxBeats /\ HeartbeatTick
    \/ \E c \in Conns : InOrder(c) /\ ConnAccept(c)
    \/ \E c \in Conns : ConnSnapshot(c)
    \/ \E c \in Conns : ConnSendInitial(c)
    \/ \E c \in Conns : ConnSendError(c)
    \/ \E c \in Conns : ConnReceiveClosed(c)
    \/ \E c \in Conns : ConnReceiveError(c)
    \/ \E c \in Conns : ClientDrop(c)

SpecCast == Init /\ [][NextCast]_vars

\* The lifecycle slice: start() and stop() called in any order, one call
\* after the other, against a poll loop with store failures in its fetch
\* and its claim update and one client.
NextLife ==
    \/ Startup
    \/ \E o \in OrderIds, op \in {"UPDATE", "DELETE"} :
          Len(order_changes) < LifeChanges /\ StoreMutate(o, op, 1, FALSE)
    \/ StartCall
    \/ StopCall
    \/ StopReturn
    \/ PollCancelled
    \/ PollFetch
    \/ faults < LifeFaults /\ PollFetchFail
    \/ PollRow
    \/ PollEnrich
    \/ PollMark
    \/ faults < LifeFaults /\ PollMarkFail
    \/ PollSleep
    \/ \E k \in 1..MaxSubscribers : TaskRun(k)
    \/ GatherDone
    \/ \E r \in 1..MaxSubscribers : RoundSend(r, 1)
    \/ \E r \in 1..MaxSubscribers : RoundFinish(r)
    \/ ConnAccept(1)
    \/ ConnSnapshot(1)
    \/ ConnSendInitial(1)
    \/ ConnSendError(1)
    \/ ClientDrop(1)

SpecLife == Init /\ [][NextLife]_vars

\* The heartbeat slice: no order changes; two clients connect, die and
\* are disconnected while the heartbeat loop ticks, fails and is cancelled
\* at shutdown.
NextBeat ==
    \/ Startup
    \/ PollFetch
    \/ PollSleep
    \/ beats < BeatTicks /\ HeartbeatTick
    \/ faults < MaxFaults /\ HeartbeatError
    \/ \E c \in Conns : RoundSend(HbRound, c)
    \/ RoundFinish(HbRound)
    \/ Shutdown
    \/ HeartbeatExit
    \/ \E c \in Conns : InOrder(c) /\ ConnAccept(c)
    \/ \E c \in Conns : ConnSnapshot(c)
    \/ \E c \in Conns : ConnSendInitial(c)
    \/ \E c \in Conns : ConnSendError(c)
    \/ \E c \in Conns : ConnReceiveClosed(c)
    \/ \E c \in Conns : ConnReceiveError(c)
    \/ \E c \in Conns : ClientDrop(c)

SpecBeat == Init /\ [][NextBeat]_vars

\* the timer of the heartbeat loop fires, and every delivery attempt of a
\* heartbeat round completes or fails
FairBeat ==
    /\ WF_vars(beats < BeatTicks /\ HeartbeatTick)
    /\ \A c \in Conns : WF_vars(RoundSend(HbRound, c))
    /\ WF_vars(RoundFinish(HbRound))

SpecBeatLive == SpecBeat /\ FairBeat

\* sizes of the bulk statement: one short of the poll query's limit, and
\* the limit itself
BulkSizes == {BatchLimit - 1, BatchLimit}

WellFormed == {i \in 1..Len(order_changes) : ~order_changes[i].malformed}

\* The poller against a backlog: a bulk of unparseable entries and one
\* well-formed update, in either order, with a reachable store and one
\* client.
NextBacklog ==
    \/ Startup
    \/ /\ WellFormed = 1..Len(order_changes)
       /\ \E n \in BulkSizes : StoreBulk(n, 1)
    \/ /\ Cardinality(WellFormed) < BacklogGood
       /\ \E t \in Times : StoreMutate(1, "UPDATE", t, FALSE)
    \/ PollFetch
    \/ PollRow
    \/ PollEnrich
    \/ \E k \in 1..MaxSubscribers : TaskRun(k)
    \/ GatherDone
    \/ PollMark
    \/ PollSleep
    \/ \E r \in 1..MaxSubscribers : RoundSend(r, 1)
    \/ \E r \in 1..MaxSubscribers : RoundFinish(r)
    \/ ConnAccept(1)
    \/ ConnSnapshot(1)
    \/ ConnSendInitial(1)

SpecBacklog == Init /\ [][NextBacklog]_vars

\* the store answers and every await of the poll loop returns; the poll
\* query is enabled exactly when the loop is at its fetch, so its weak
\* fairness is that the loop does not stay there
FairBacklog ==
    /\ WF_vars(Startup)
    /\ []<>(ppc # "fetch")
    /\ WF_vars(PollRow)
    /\ WF_vars(PollEnrich)
    /\ WF_vars(\E k \in 1..MaxSubscribers : TaskRun(k))
    /\ WF_vars(GatherDone)
    /\ WF_vars(PollMark)
    /\ WF_vars(PollSleep)
    /\ WF_vars(\E r \in 1..MaxSubscribers : RoundSend(r, 1))
    /\ WF_vars(\E r \in 1..MaxSubscribers : RoundFinish(r))

SpecBacklogLive == SpecBacklog /\ FairBacklog

\* ------------------------------------------------------------ properties
ProcessedSet == {i \in 1..Len(order_changes) : order_changes[i].processed}

InRow == ppc \in {"row", "enrich", "gather"}

\* the publish round in flight returns in this step
PublishReturns == ppc = "gather" /\ ppc' # "gather"

\* a publish round starts in this step and awaits its dispatches
PublishStarts == ppc \in {"row", "enrich"} /\ ppc' = "gather"

TaskCallbacks == [k \in DOMAIN tasks |-> tasks[k].cb]

\* C1: a poll cycle whose batch of N rows all parse and enrich hands exactly
\* the N ids of the batch to its one mark_changes_processed call, which
\* marks exactly them, whatever the subscriber callbacks and the sends to
\* the connections did; such a cycle cannot reach its sleep without that
\* call.
C1_ConstructedBatchIsClaimed ==
    [][/\ (ppc = "mark" /\ rowErr = {}) =>
            /\ processed_ids = batch
            /\ ppc' = "sleep" => ProcessedSet' = ProcessedSet \cup Range(batch)
       /\ (InRow /\ ppc' = "sleep") => rowErr' # {}]_vars

\* a cycle of two rows is over, both are marked, and every delivery of the
\* last publish round failed: the plain callback raised and the send to the
\* only connection failed
C1_Witness ==
    /\ ppc = "sleep"
    /\ Len(batch) = 2
    /\ rowErr = {}
    /\ Range(batch) \subseteq ProcessedSet
    /\ Len(tasks) = 2
    /\ tasks[2].st = "exc"
    /\ hpc[1] # "init"
    /\ 1 \notin active_connections

\* C2: a row whose parsing or enrichment raised is not in processed_ids, is
\* not marked processed, and is in the result of the next
\* get_unprocessed_changes; when the cycle reaches its sleep every other row
\* of the batch has been published, is in processed_ids and is marked.
C2_FailedRowIsolated ==
    [][/\ rowErr' \cap Range(processed_ids') = {}
       /\ rowErr' \cap ProcessedSet' = {}
       /\ (ppc = "fetch" /\ ppc' \in {"row", "sleep"}) => rowErr \subseteq Range(batch')
       /\ (ppc' = "sleep" /\ batch' # <<>>) =>
            \A id \in Range(batch') \ rowErr' :
                /\ id \in Range(notified')
                /\ id \in Range(processed_ids')
                /\ id \in ProcessedSet']_vars

\* a cycle of two rows is over: one row raised and is still unprocessed, the
\* other is marked processed
C2_Witness ==
    /\ ppc = "sleep"
    /\ Len(batch) = 2
    /\ Cardinality(rowErr) = 1
    /\ Len(processed_ids) = 1
    /\ Range(processed_ids) \subseteq ProcessedSet
    /\ rowErr \cap ProcessedSet = {}

\* C9: a dispatch that raises leaves every other dispatch of the round
\* as it is; the round returns only when every dispatch has settled, and it
\* returns normally: the poller appends the row's id and records no row
\* error.
C9_SubscriberFailureIsolated ==
    [][/\ \A k \in DOMAIN tasks :
            (ppc = "gather" /\ ppc' = "gather" /\ tasks[k].st = "ready"
                /\ tasks'[k].st = "exc") =>
                \A j \in DOMAIN tasks \ {k} : tasks'[j] = tasks[j]
       /\ PublishReturns =>
            /\ \A k \in DOMAIN tasks : tasks[k].st \in Settled
            /\ rowErr' = rowErr
            /\ processed_ids' = Append(processed_ids, notif.change_id)]_vars

\* a round of two dispatches has returned: the plain callback raised, the
\* registry's broadcast still delivered the change to the connection, and
\* the row's id is in processed_ids
C9_Witness ==
    /\ ppc \in {"mark", "sleep"}
    /\ Len(tasks) = 2
    /\ tasks[1].cb = "broadcast_change" /\ tasks[1].st = "ok"
    /\ tasks[2].cb = "cb" /\ tasks[2].st = "exc"
    /\ \E i \in 1..Len(log[1]) :
          log[1][i].type = "order_change" /\ log[1][i].change_id = notif.change_id
    /\ notif.change_id \in Range(processed_ids)

\* C10: the dispatches of a publish round are those of the subscriber list
\* at the moment the round begins, one per member and in its order; while
\* the round is in flight they do not change, whatever is subscribed or
\* unsubscribed meanwhile, and the round returns only when all of them have
\* settled.
C10_RoundUsesSnapshot ==
    [][/\ PublishStarts => TaskCallbacks' = subscribers
       /\ (ppc = "gather" /\ ppc' = "gather") => TaskCallbacks' = TaskCallbacks
       /\ PublishReturns => \A k \in DOMAIN tasks : tasks[k].st \in Settled]_vars

\* a round in flight whose subscriber list has changed since it began and
\* whose dispatches have all settled
C10_Witness ==
    /\ ppc = "gather"
    /\ tasks # <<>>
    /\ TaskCallbacks # subscribers
    /\ \A k \in DOMAIN tasks : tasks[k].st \in {"ok", "exc"}

Types(c) == [i \in 1..Len(log[c]) |-> log[c][i].type]

\* the call of _broadcast_message that is round r returns in this step
RoundReturns(r) == rounds[r].on /\ ~rounds'[r].on

\* a call of _broadcast_message takes its copy of the live set in this step
RoundBegins(r) == ~rounds[r].on /\ rounds'[r].on

\* a delivery attempt of round r completes in this step
RoundSends(r) == rounds[r].on /\ rounds'[r].on /\ rounds'[r].pending # rounds[r].pending

\* the connection handler calls disconnect in this step
HandlerDisconnects(c) == hpc[c] = "recv" /\ hpc'[c] = "closed"

\* c was registered and has been removed, or its handler has called
\* disconnect
Disconnected(c) == hpc[c] = "closed" \/ (hpc[c] # "init" /\ c \notin active_connections)

\* C3: every connection is sent at most one initial_data message, and no
\* order_change message is sent to it before its initial_data message.
C3_InitialDataFirst ==
    \A c \in Conns :
        /\ Cardinality({i \in 1..Len(log[c]) : log[c][i].type = "initial_data"}) <= 1
        /\ \A i \in 1..Len(log[c]) :
              log[c][i].type = "order_change" =>
                  \E j \in 1..(i - 1) : log[c][j].type = "initial_data"

\* C4 as stated: when a broadcast call returns, every connection of its copy
\* whose send failed is absent and every connection of its copy whose send
\* did not fail is present.
C4_UnaffectedStillPresent ==
    [][\A r \in RoundIds :
          RoundReturns(r) =>
              /\ rounds[r].failed \cap active_connections' = {}
              /\ (rounds[r].snap \ rounds[r].failed) \subseteq active_connections']_vars

\* C4 amended: when a broadcast call returns, every connection of its copy
\* whose send failed is absent, and the call removes nothing else: its
\* return takes exactly its failed connections out of the registry and its
\* delivery attempts leave the registry as it is.  A connection whose send
\* did not fail is missing at the return only when another task (the
\* handler's disconnect, an overlapping round) removed it meanwhile.
C4_RemovesExactlyFailed ==
    [][\A r \in RoundIds :
          /\ RoundReturns(r) =>
                /\ rounds[r].failed \subseteq rounds[r].snap
                /\ rounds[r].failed \cap active_connections' = {}
                /\ active_connections' = active_connections \ rounds[r].failed
          /\ RoundSends(r) => active_connections' = active_connections]_vars

\* the one heartbeat round of a run without changes has returned:
\* connection 1, whose handler never called disconnect, is gone, and
\* connection 2 received the heartbeat and is still registered
C4_Witness ==
    /\ order_changes = <<>>
    /\ beats = 1
    /\ hbpc = "sleep"
    /\ hpc[1] = "recv"
    /\ 1 \notin active_connections
    /\ 2 \in active_connections
    /\ \E i \in 1..Len(log[2]) : log[2][i].type = "heartbeat"

\* C5: a broadcast round returns only when it has no delivery attempt
\* pending, its delivery attempts do not change the registry, and a
\* connection leaves the registry only through the return of a round in
\* whose failed set it is or through its handler's disconnect.
C5_RemovalsAfterFanOut ==
    [][/\ \A r \in RoundIds :
            /\ RoundReturns(r) => rounds[r].pending = {}
            /\ RoundSends(r) =>
                  /\ active_connections' = active_connections
                  /\ connection_info' = connection_info
       /\ \A c \in active_connections \ active_connections' :
            \/ HandlerDisconnects(c)
            \/ \E r \in RoundIds :
                  RoundReturns(r) /\ rounds[r].pending = {} /\ c \in rounds[r].failed]_vars

\* a round in flight: the send to connection 1 has failed, the send to
\* connection 2 is pending, and connection 1 is still registered
C5_Witness ==
    \E r \in RoundIds :
        /\ rounds[r].on
        /\ rounds[r].failed = {1}
        /\ rounds[r].pending = {2}
        /\ 1 \in active_connections

\* a failure in _send_initial_data: of get_all_orders or of the send of
\* initial_data
SnapshotFails(c) == hpc[c] \in {"snapshot", "send_initial"} /\ hpc'[c] = "send_error"

\* the send of the error message completes or raises
ErrorSendEnds(c) == hpc[c] = "send_error" /\ hpc'[c] # "send_error"

\* C6: when the fetch of the snapshot or the send of initial_data fails in
\* connect, the next step of connect is the send of an error message, which
\* an open transport receives as the only message of connect; no step of
\* this failure path removes the connection from the registry.
C6_SnapshotFailureKeepsConnection ==
    [][\A c \in Conns :
          /\ SnapshotFails(c) =>
                /\ log'[c] = log[c]
                /\ (c \in active_connections) = (c \in active_connections')
                /\ (c \in connection_info) = (c \in connection_info')
          /\ ErrorSendEnds(c) =>
                /\ (c \in active_connections) = (c \in active_connections')
                /\ alive[c] =>
                      /\ hpc'[c] = "recv"
                      /\ Len(log'[c]) = Len(log[c]) + 1
                      /\ log'[c][Len(log'[c])].type = "error"
                      /\ "initial_data" \notin Range(Types(c)')]_vars

\* connect is over for connection 1: the snapshot failed, the error message
\* is the only handler message it received, and it is registered
C6_Witness ==
    /\ hpc[1] = "recv"
    /\ "error" \in Range(Types(1))
    /\ "initial_data" \notin Range(Types(1))
    /\ 1 \in active_connections
    /\ 1 \in connection_info

\* the send of the pong reply raises and is swallowed
PongFails(c) == hpc[c] = "pong" /\ hpc'[c] = "recv" /\ ~alive[c]

\* C7 as stated: a failed send in connect or of the pong reply, a failed
\* broadcast send and a client close each remove the connection within the
\* operation that observes it.
C7_AnyFailedSendDisconnects ==
    [][\A c \in Conns :
          /\ (ErrorSendEnds(c) /\ ~alive[c]) => c \notin active_connections'
          /\ PongFails(c) => c \notin active_connections'
          /\ HandlerDisconnects(c) => c \notin active_connections'
          /\ \A r \in RoundIds :
                RoundReturns(r) => rounds[r].failed \cap active_connections' = {}]_vars

\* C7 amended: a failed broadcast send removes the connection when that
\* round returns, and a close or receive error seen by the handler removes
\* it in the handler; a failed send of initial_data, of the error message
\* or of the pong reply removes nothing.  The registry loses a connection
\* in no other way and never takes one back.
C7_OnlyBroadcastAndHandlerDisconnect ==
    [][\A c \in Conns :
          /\ HandlerDisconnects(c) => c \notin active_connections'
          /\ \A r \in RoundIds :
                RoundReturns(r) => rounds[r].failed \cap active_connections' = {}
          /\ (SnapshotFails(c) \/ ErrorSendEnds(c) \/ PongFails(c)) =>
                (c \in active_connections) = (c \in active_connections')
          /\ (c \in active_connections /\ c \notin active_connections') =>
                \/ HandlerDisconnects(c)
                \/ \E r \in RoundIds : RoundReturns(r) /\ c \in rounds[r].failed
          /\ (c \notin active_connections /\ c \in active_connections') =>
                hpc[c] = "init"]_vars

\* connection 1 is still registered after its error send failed and connect
\* raised; connection 2 was removed by its handler
C7_Witness ==
    /\ hpc[1] = "crashed"
    /\ 1 \in active_connections
    /\ hpc[2] = "closed"
    /\ 2 \notin active_connections

\* C8 as stated: once a connection has been removed no message is sent to
\* it and it is never registered again.
C8_NothingSentAfterDisconnect ==
    [][\A c \in Conns :
          Disconnected(c) => (log'[c] = log[c] /\ c \notin active_connections')]_vars

\* C8 amended: once a connection has been removed it is never registered
\* again and no broadcast round that begins afterwards has it in its copy;
\* a message reaches it only as a delivery attempt of a round that was
\* already in flight with the connection in its copy.
C8_NoNewRoundAfterDisconnect ==
    [][\A c \in Conns :
          Disconnected(c) =>
              /\ c \notin active_connections'
              /\ \A r \in RoundIds : RoundBegins(r) => c \notin rounds'[r].snap
              /\ log'[c] # log[c] =>
                    \E r \in RoundIds :
                        /\ rounds[r].on
                        /\ c \in rounds[r].pending
                        /\ c \notin rounds'[r].pending]_vars

\* connection 1 has been removed by its handler while a round that has it
\* in its copy still has the send to it pending on an open transport
C8_Witness ==
    \E r \in RoundIds :
        /\ rounds[r].on
        /\ 1 \in rounds[r].pending
        /\ hpc[1] = "closed"
        /\ 1 \notin active_connections
        /\ alive[1]

\* ---------------------------------------------------------- lifecycle
\* a call of start is made in this step (at startup or later)
StartCalled ==
    \/ hbpc = "off" /\ hbpc' # "off"
    \/ ctlOps' = ctlOps + 1 /\ running' /\ hbpc' = hbpc

\* a call of stop is made in this step
StopCalled == ctlOps' = ctlOps + 1 /\ ~running' /\ hbpc' = hbpc

\* the await of the task in stop is over in this step
StopReturns == ctl = "stop" /\ ctl' = "idle"

\* C11: at most one _listen_loop task exists at any time; a call of start
\* while the poller is running changes nothing of the poller, and a call of
\* start while it is not running (before the first start, or after a stop
\* that has returned) finds no loop and creates exactly one, at its fetch.
C11_StartIdempotentOneLoop ==
    [][/\ loops' <= 1
       /\ (StartCalled /\ running) =>
             /\ UNCHANGED pollVars
             /\ loops' = loops
       /\ (StartCalled /\ ~running) =>
             /\ loops = 0
             /\ loops' = 1
             /\ ppc' = "fetch"]_vars

\* the poller has been started again after a stop that cancelled a publish
\* round: one loop exists, at its first fetch
C11_Witness ==
    /\ running
    /\ loops = 1
    /\ ppc = "fetch"
    /\ ctlOps >= 2
    /\ \E k \in DOMAIN tasks : tasks[k].st = "cancelled"

\* C12: stop returns only when the loop task is done, and returns normally;
\* from then on and until start is called again the poller performs no
\* fetch, no publish and no claim update, and no order_change message
\* reaches a client; a call of stop while the poller is not running changes
\* nothing and does not wait.
C12_StopWaitsForExit ==
    [][/\ StopReturns => (ppc = "exited" /\ loops = 0 /\ ~running /\ ctl' = "idle")
       /\ (~running /\ ctl = "idle" /\ hbpc # "off" /\ ~running') =>
             /\ UNCHANGED <<ppc, batch, notified, processed_ids, tasks>>
             /\ ProcessedSet' = ProcessedSet
             /\ \A r \in 1..MaxSubscribers : rounds'[r] = rounds[r]
             /\ \A c \in Conns :
                   log'[c] # log[c] =>
                       log'[c][Len(log'[c])].type # "order_change"
       /\ (StopCalled /\ ~running) => (UNCHANGED pollVars /\ ctl' = "idle")]_vars

\* stop has returned while an unprocessed change waits in the store and a
\* client is registered: the loop task is done
C12_Witness ==
    /\ ~running
    /\ ctl = "idle"
    /\ ppc = "exited"
    /\ loops = 0
    /\ Unprocessed # {}
    /\ 1 \in active_connections
    /\ alive[1]

\* a store query of the loop body (the fetch or the claim update) raises in
\* this step
LoopBodyRaises == ppc \in {"fetch", "mark"} /\ faults' = faults + 1

\* the loop task leaves its loop in this step
LoopEnds == ppc \notin {"cancelled", "exited"} /\ ppc' \in {"cancelled", "exited"}

\* C13: when the fetch or the claim update raises, the loop goes to its
\* pause and stays started, however many failures came before; from the
\* pause it goes to a new fetch; the loop task leaves its loop only in a
\* step in which stop clears the running flag.
C13_LoopSurvivesErrors ==
    [][/\ LoopBodyRaises => (ppc' = "pause" /\ running' /\ loops' = loops)
       /\ (ppc = "pause" /\ ppc' # "pause") => (ppc' = "fetch" \/ StopCalled)
       /\ LoopEnds => (StopCalled /\ running)]_vars

\* the fetch has returned rows after two failures of the loop body
C13_Witness ==
    /\ faults = LifeFaults
    /\ running
    /\ ppc = "row"
    /\ loops = 1

\* ---------------------------------------------------------- enrichment
\* get_order_by_id returns in this step and finds no row
EnrichMiss ==
    /\ ppc = "enrich"
    /\ ppc' # "enrich"
    /\ faults' = faults
    /\ get_order_by_id(order_changes[batch[idx]].order_id) = Null

\* the claim update of the cycle returns in this step
MarkReturns == ppc = "mark" /\ ppc' = "sleep"

\* C14: when the enrichment of an INSERT or UPDATE row finds no record, the
\* poller builds a notification of that row with order_data null and hands
\* it to the publish round, with no row error; every row handed to a
\* publish round is marked processed by the claim update of the cycle, and
\* a cycle that published a row does not reach its sleep without that
\* update.
C14_EnrichmentMissPublished ==
    [][/\ EnrichMiss =>
             /\ notif'.change_id = batch[idx]
             /\ notif'.operation \in {"INSERT", "UPDATE"}
             /\ notif'.order_data = Null
             /\ notified' = Append(notified, batch[idx])
             /\ rowErr' = rowErr
       /\ MarkReturns => Range(notified) \subseteq ProcessedSet'
       /\ (InRow /\ ppc' = "sleep") => notified' = <<>>]_vars

\* a cycle is over: an UPDATE whose record had been deleted was delivered
\* to the client as an order_change with no record payload and is marked
C14_Witness ==
    /\ ppc = "sleep"
    /\ \E id \in ProcessedSet :
          /\ order_changes[id].operation_type = "UPDATE"
          /\ \E i \in 1..Len(log[1]) :
                /\ log[1][i].type = "order_change"
                /\ log[1][i].change_id = id
                /\ log[1][i].operation = "UPDATE"
                /\ log[1][i].order_data = Null

\* C15 as stated: an enrichment that finds no record is a construction
\* error of the row: the row is not published and is left unprocessed.
C15_EnrichmentMissLeftUnprocessed ==
    [][EnrichMiss =>
          /\ batch[idx] \in rowErr'
          /\ notified' = notified
          /\ batch[idx] \notin Range(processed_ids')]_vars

\* C15 amended: a row becomes a row-level construction error only when its
\* payload does not parse or its enrichment query raises, and such a row is
\* never marked; an enrichment that finds no record is no error: the row is
\* published and joins no error set.
C15_MissIsNotAConstructionError ==
    [][/\ \A id \in rowErr' \ rowErr :
             \/ order_changes[id].malformed
             \/ ppc = "enrich" /\ faults' = faults + 1
       /\ rowErr' \cap ProcessedSet' = {}
       /\ EnrichMiss =>
             /\ batch[idx] \notin rowErr'
             /\ batch[idx] \in Range(notified')]_vars

\* a cycle of two rows is over: the UPDATE, whose record was gone, was
\* published with no payload and is marked; the DELETE did not parse and is
\* left unprocessed
C15_Witness ==
    /\ ppc = "sleep"
    /\ Len(batch) = 2
    /\ order_changes[batch[1]].operation_type = "UPDATE"
    /\ notif.change_id = batch[1]
    /\ notif.order_data = Null
    /\ batch[1] \in ProcessedSet
    /\ rowErr = {batch[2]}
    /\ batch[2] \in Unprocessed

\* the notification of a DELETE row is built in this step
DeleteBuilt ==
    /\ ppc = "row"
    /\ order_changes[batch[idx]].operation_type = "DELETE"
    /\ notified' = Append(notified, batch[idx])

\* C16: the notification built for a DELETE row whose old_data is populated
\* has order_data null and previous_data equal to the parsed old_data of
\* the row, whether or not the store holds a record of that id; the
\* order_change message of a broadcast round carries both unchanged.
C16_DeleteCarriesPreviousData ==
    [][/\ (DeleteBuilt /\ order_changes[batch[idx]].old_data # Null) =>
             /\ notif'.operation = "DELETE"
             /\ notif'.order_data = Null
             /\ notif'.previous_data = json_loads(order_changes[batch[idx]].old_data)
             /\ notif'.previous_data \in Status
       /\ \A r \in 1..MaxSubscribers :
             RoundBegins(r) =>
                 /\ rounds'[r].message_json.order_data = notif.order_data
                 /\ rounds'[r].message_json.previous_data = notif.previous_data]_vars

\* the DELETE of a batch of two rows is being published with no record
\* payload and the fields of the deleted record, while the store holds a
\* record of the same id again
C16_Witness ==
    /\ ppc = "gather"
    /\ Len(batch) = 2
    /\ idx = 1
    /\ notif.operation = "DELETE"
    /\ notif.order_data = Null
    /\ notif.previous_data = "pending"
    /\ orders[notif.order_id] # Null
    /\ rounds[1].on
    /\ rounds[1].message_json.previous_data = "pending"

\* ---------------------------------------------------------- end to end
\* get_order_by_id returns for an UPDATE row in this step
EnrichUpdate ==
    /\ ppc = "enrich"
    /\ ppc' # "enrich"
    /\ order_changes[batch[idx]].operation_type = "UPDATE"

\* c has been sent the order_change message of notification n
ReceivedChange(c, n) ==
    \E i \in 1..Len(log[c]) :
        /\ log[c][i].type = "order_change"
        /\ log[c][i].change_id = n.change_id
        /\ log[c][i].operation = n.operation
        /\ log[c][i].order_data = n.order_data

\* C17: the notification of an UPDATE row carries the record as the store
\* holds it when the enrichment query returns; its publish round dispatches
\* to the registry, whose broadcast takes every registered connection into
\* its copy; when the broadcast returns, every connection of the copy whose
\* transport is open has been sent the order_change of that notification;
\* the claim update of the cycle marks every published row.
C17_UpdateReachesClients ==
    [][/\ EnrichUpdate =>
             /\ notif'.operation = "UPDATE"
             /\ notif'.change_id = batch[idx]
             /\ notif'.order_data = orders[order_changes[batch[idx]].order_id]
       /\ PublishStarts => tasks'[1].cb = "broadcast_change"
       /\ \A r \in 1..MaxSubscribers :
             /\ RoundBegins(r) => rounds'[r].snap = active_connections
             /\ RoundReturns(r) =>
                   \A c \in rounds[r].snap : alive[c] => ReceivedChange(c, notif)
       /\ (ppc = "gather" /\ tasks[1].st = "ready" /\ tasks'[1].st = "ok") =>
             active_connections = {}
       /\ MarkReturns => Range(notified) \subseteq ProcessedSet']_vars

\* one poll cycle after order 1 was updated to shipped: both clients, still
\* registered and open, have been sent the UPDATE with the shipped record,
\* and the change is marked
C17_Witness ==
    /\ ppc = "sleep"
    /\ Len(order_changes) = 1
    /\ order_changes[1].operation_type = "UPDATE"
    /\ orders[1] = "shipped"
    /\ 1 \in ProcessedSet
    /\ \A c \in Conns :
          /\ c \in active_connections
          /\ alive[c]
          /\ \E i \in 1..Len(log[c]) :
                /\ log[c][i].type = "order_change"
                /\ log[c][i].operation = "UPDATE"
                /\ log[c][i].order_data = "shipped"

\* ------------------------------------------------------------ heartbeat
\* the sleep of the heartbeat loop is over and send_heartbeat is called
Ticks == beats' = beats + 1

\* the round of send_heartbeat returns to the heartbeat loop in this step
HeartbeatReturns == RoundReturns(HbRound) /\ hbpc' = "sleep"

\* C18: a heartbeat tick with no registered connection starts no round and
\* sends nothing; with registered connections it starts one round whose
\* copy is the registered set and whose payload is the heartbeat message of
\* that tick; every message the round delivers is that one payload; the
\* round returns to the loop only when an attempt was made for every member
\* of the copy, and every member whose attempt did not fail holds the
\* payload.
C18_HeartbeatOnePayload ==
    [][/\ (Ticks /\ active_connections = {}) => UNCHANGED <<rounds, log, hbpc>>
       /\ (Ticks /\ active_connections # {}) =>
             /\ rounds'[HbRound].on
             /\ rounds'[HbRound].snap = active_connections
             /\ rounds'[HbRound].pending = active_connections
             /\ rounds'[HbRound].message_json.type = "heartbeat"
             /\ rounds'[HbRound].message_json.server_time = beats'
             /\ log' = log
       /\ RoundSends(HbRound) =>
             \A c \in Conns :
                 log'[c] # log[c] =>
                     log'[c] = Append(log[c], rounds[HbRound].message_json)
       /\ HeartbeatReturns =>
             /\ rounds[HbRound].pending = {}
             /\ \A c \in rounds[HbRound].snap \ rounds[HbRound].failed :
                   rounds[HbRound].message_json \in Range(log[c])]_vars

\* the second tick is over: both clients hold the same heartbeat message of
\* that tick, after their initial data
C18_Witness ==
    /\ beats = 2
    /\ hbpc = "sleep"
    /\ active_connections = Conns
    /\ Len(log[1]) >= 2
    /\ Len(log[2]) >= 2
    /\ log[1][Len(log[1])].type = "heartbeat"
    /\ log[1][Len(log[1])].server_time = 2
    /\ log[2][Len(log[2])] = log[1][Len(log[1])]

\* the heartbeat loop has been created and not cancelled
HeartbeatRuns == hbpc \in {"sleep", "broadcast"}

\* C19: while the heartbeat loop runs and has a tick to come, a registered
\* connection whose transport is dead is eventually out of the registry
\* (or the loop has been cancelled), with no order change in the store;
\* when a heartbeat round returns, a member of its copy that is dead and
\* still registered is one that took the heartbeat before it died; a
\* heartbeat error leaves the loop at its sleep, and the loop ends only by
\* the cancellation of the shutdown.
C19_HeartbeatPrunesDead ==
    /\ \A c \in Conns :
          (c \in active_connections /\ ~alive[c] /\ HeartbeatRuns /\ beats < BeatTicks)
              ~> (c \notin active_connections \/ ~HeartbeatRuns)
    /\ [][/\ HeartbeatReturns =>
                \A c \in rounds[HbRound].snap :
                    (~alive[c] /\ c \in active_connections') =>
                        rounds[HbRound].message_json \in Range(log[c])
          /\ (hbpc = "sleep" /\ faults' = faults + 1) => hbpc' = "sleep"
          /\ (HeartbeatRuns /\ ~HeartbeatRuns') =>
                (hbpc' = "cancelled" /\ ctl' = "shutdown")]_vars

\* with no change in the store, after a heartbeat error and two ticks:
\* connection 1, whose connect raised on its dead transport and whose
\* handler never called disconnect, is out of the registry and the loop is
\* at its sleep
C19_Witness ==
    /\ order_changes = <<>>
    /\ faults = 1
    /\ beats = 2
    /\ hbpc = "sleep"
    /\ hpc[1] = "crashed"
    /\ ~alive[1]
    /\ 1 \notin active_connections

\* ---------------------------------------------------------------- claim
\* get_unprocessed_changes returns to the loop in this step
FetchReturns == ppc = "fetch" /\ ppc' \in {"row", "sleep"}

\* a row is handed to a publish round in this step
Publishes == notified' # notified /\ notified' # <<>>

\* C20: a processed change entry stays processed; the rows a fetch returns
\* are all unprocessed, a row handed to a publish round is unprocessed, and
\* a claim update that changes the store marks exactly the ids of its
\* cycle, none of which was marked before: no id is fetched, published or
\* marked by a cycle after the one that marked it, across stop and start.
C20_ClaimedAtMostOnce ==
    [][/\ ProcessedSet \subseteq ProcessedSet'
       /\ FetchReturns => Range(batch') \cap ProcessedSet = {}
       /\ Publishes => notified'[Len(notified')] \notin ProcessedSet
       /\ ProcessedSet' # ProcessedSet =>
             /\ ppc = "mark"
             /\ Range(processed_ids) \cap ProcessedSet = {}
             /\ ProcessedSet' = ProcessedSet \cup Range(processed_ids)]_vars

\* change 1 was marked by an earlier cycle; change 2 was delivered by a
\* cycle that stop cancelled before its claim update; the poller was
\* started again and its fetch returned change 2 alone
C20_Witness ==
    /\ running
    /\ ppc = "row"
    /\ faults = 0
    /\ ProcessedSet = {1}
    /\ batch = <<2>>
    /\ notified = <<>>
    /\ \E i \in 1..Len(log[1]) :
          log[1][i].type = "order_change" /\ log[1][i].change_id = 2

\* C21: publishing with an empty subscriber list creates no dispatch and
\* awaits none, raises nothing (no row error is recorded and the row's id
\* is appended to processed_ids), and leaves the subscriber list, the
\* broadcast rounds, the registry and every connection's messages as they
\* were; each further publish of the cycle does the same.
C21_EmptyPublishIsNoOp ==
    [][(Publishes /\ subscribers = <<>>) =>
          /\ tasks' = <<>>
          /\ ppc' # "gather"
          /\ subscribers' = subscribers
          /\ rowErr' = rowErr
          /\ rounds' = rounds
          /\ log' = log
          /\ active_connections' = active_connections
          /\ connection_info' = connection_info
          /\ processed_ids' = Append(processed_ids, notified'[Len(notified')])]_vars

\* both rows of a batch were published while nobody was subscribed: no
\* dispatch exists, the registered connection got no order_change, and both
\* ids wait for the claim update
C21_Witness ==
    /\ ppc = "mark"
    /\ subscribers = <<>>
    /\ Len(notified) = 2
    /\ tasks = <<>>
    /\ processed_ids = batch
    /\ rowErr = {}
    /\ 1 \in active_connections
    /\ \A i \in 1..Len(log[1]) : log[1][i].type # "order_change"

\* C22: unsubscribe of a callback that is not in the subscriber list
\* returns the list as it is, same members in the same order and the same
\* count, for every subscriber list the program reaches; the call is a
\* step of the program that raises nothing and leaves the poller, the
\* registry and the connections alone.
C22_UnsubscribeAbsentIsNoOp ==
    \A cb \in Callbacks :
        cb \notin Range(subscribers) =>
            /\ unsubscribe(subscribers, cb) = subscribers
            /\ Len(unsubscribe(subscribers, cb)) = Len(subscribers)

\* the one subscription call made so far was an unsubscribe of the plain
\* callback, which was never subscribed: the list still holds exactly the
\* registry's broadcast_change
C22_Witness ==
    /\ hbpc # "off"
    /\ subOps = 1
    /\ subscribers = <<"broadcast_change">>

\* the order_change message a step appends to connection c's messages
Delivered(c) == log'[c][Len(log'[c])]

\* a step appends an order_change message to connection c's messages
DeliversChange(c) ==
    /\ Len(log'[c]) = Len(log[c]) + 1
    /\ Delivered(c).type = "order_change"

\* C23: the batch a fetch returns is in (changed_at, id) ascending order
\* and does not change during its cycle, whose row index only grows; a
\* publish is of the row at the index, comes after the publishes of rows at
\* smaller indexes only, and starts when no dispatch and no broadcast round
\* of an earlier row is still running; every order_change a connection is
\* sent is the one of the row at the index, so one connection is sent the
\* changes of a batch in (changed_at, id) order.
C23_BatchInQueryOrder ==
    [][/\ FetchReturns =>
            \A i, j \in 1..Len(batch') :
                i < j =>
                    \/ order_changes[batch'[i]].changed_at
                          < order_changes[batch'[j]].changed_at
                    \/ /\ order_changes[batch'[i]].changed_at
                             = order_changes[batch'[j]].changed_at
                       /\ batch'[i] < batch'[j]
       /\ (InRow /\ InRow') => (batch' = batch /\ idx' >= idx)
       /\ Publishes =>
            /\ notified'[Len(notified')] = batch[idx]
            /\ \A k \in 1..Len(notified) :
                  \E p \in 1..(idx - 1) : batch[p] = notified[k]
            /\ \A k \in DOMAIN tasks : tasks[k].st \in Settled
            /\ \A r \in 1..MaxSubscribers : ~rounds[r].on
       /\ \A c \in Conns :
            DeliversChange(c) =>
                /\ ppc = "gather"
                /\ Delivered(c).change_id = batch[idx]]_vars

\* change 2 carries the earlier changed_at: the batch is <<2, 1>> and the
\* registered connection was sent change 2 first and change 1 after it
C23_Witness ==
    /\ ppc \in {"mark", "sleep"}
    /\ batch = <<2, 1>>
    /\ 1 \in active_connections
    /\ \E i, j \in 1..Len(log[1]) :
          /\ i < j
          /\ log[1][i].type = "order_change" /\ log[1][i].change_id = 2
          /\ log[1][j].type = "order_change" /\ log[1][j].change_id = 1

\* C24: an id a step marks processed is in processed_ids of the running
\* cycle; processed_ids holds only ids whose notification was constructed
\* and published in this cycle, which are ids of the fetched batch; an id
\* enters processed_ids only in the step in which its publish round
\* returns, every dispatch of the round settled (or at once when the
\* subscriber list was empty), and it is the id published last.
C24_PublishPrecedesClaim ==
    [][/\ (ProcessedSet' \ ProcessedSet) \subseteq Range(processed_ids)
       /\ Range(processed_ids') \subseteq Range(notified')
       /\ Range(notified') \subseteq Range(batch')
       /\ (processed_ids' # processed_ids /\ processed_ids' # <<>>) =>
            /\ PublishReturns \/ (Publishes /\ subscribers = <<>>)
            /\ processed_ids' = Append(processed_ids, notified'[Len(notified')])
       /\ (PublishReturns /\ ppc' # "cancelled") =>
            \A k \in DOMAIN tasks : tasks[k].st \in Settled]_vars

\* a cycle of two rows has made its claim update: the one row that was
\* published, and delivered to the connection, is marked; the row whose
\* construction raised was never published and is not marked
C24_Witness ==
    /\ ppc = "sleep"
    /\ Len(batch) = 2
    /\ Len(notified) = 1
    /\ ProcessedSet = Range(notified)
    /\ tasks # <<>>
    /\ tasks[1].st = "ok"
    /\ \E i \in 1..Len(log[1]) :
          log[1][i].type = "order_change" /\ log[1][i].change_id = notified[1]

\* a poll cycle ends in this step before its claim update was made:
\* mark_changes_processed raises, or stop cancels the loop while a row of
\* the batch is being constructed or published
CycleCutShort ==
    \/ ppc = "mark" /\ ppc' = "pause"
    \/ ppc \in {"row", "enrich", "gather"} /\ ppc' = "cancelled"

C26_WellFormedEventuallyProcessed ==
    (hbpc # "off" /\ WellFormed # {}) ~> (WellFormed \subseteq ProcessedSet)

\* -------------------------------------------------- snapshot and stream
\* the status of record o once the mutation of change entry k is committed
StatusAfter(o, k) ==
    LET mine == {i \in 1..k : order_changes[i].order_id = o}
    IN IF mine = {} THEN "pending"
       ELSE LET m == CHOOSE i \in mine : \A j \in mine : j <= i
            IN IF order_changes[m].new_data = Null THEN Null
               ELSE json_loads(order_changes[m].new_data)

\* the result of get_all_orders once the mutation of change entry k is
\* committed
RecordsAfter(k) ==
    {<<o, StatusAfter(o, k)>> : o \in {x \in OrderIds : StatusAfter(x, k) # Null}}

\* c has been sent an initial_data message
HasInitial(c) == \E i \in 1..Len(log[c]) : log[c][i].type = "initial_data"

\* the snapshot c was sent holds the records as they are after the
\* mutation of change entry x, or after a later one
Reflected(c, x) ==
    \E i \in 1..Len(log[c]) :
        /\ log[c][i].type = "initial_data"
        /\ \E k \in x..Len(order_changes) : log[c][i].orders = RecordsAfter(k)

\* c has been sent the order_change message of change entry x
SentChange(c, x) ==
    \E i \in 1..Len(log[c]) :
        log[c][i].type = "order_change" /\ log[c][i].change_id = x

\* C27: for a connection that is registered, whose transport is open and
\* that has been sent its initial_data, every change entry the poller has
\* published and marked is reflected in the records of that snapshot or
\* was sent to the connection as an order_change message, however connect
\* interleaved with the mutation and with the poll cycle.
C27_NoChangeMissed ==
    \A c \in Conns :
        \A x \in 1..Len(order_changes) :
            (/\ c \in active_connections
             /\ alive[c]
             /\ HasInitial(c)
             /\ ~order_changes[x].malformed
             /\ x \in ProcessedSet) =>
                (Reflected(c, x) \/ SentChange(c, x))

\* connection 1 read its snapshot before the mutation was committed, so the
\* snapshot holds the old record; it was registered by then and was sent
\* the order_change of the mutation, which is now marked
C27_Witness ==
    /\ 1 \in active_connections
    /\ alive[1]
    /\ HasInitial(1)
    /\ 1 \in ProcessedSet
    /\ ~Reflected(1, 1)
    /\ SentChange(1, 1)

\* C28: in every state the keys of connection_info are the members of
\* active_connections, so get_connection_stats reports as many connections
\* as it lists metadata entries; a broadcast round that returns takes
\* exactly its failed connections out of both, those already removed by
\* the handler or by an overlapping round included, and returns normally;
\* the handler's disconnect takes exactly its own connection out of both;
\* a connection that was removed is not registered again.
C28_RegistryConsistent ==
    /\ [](/\ connection_info = active_connections
          /\ get_connection_stats.total_connections
                = Cardinality(get_connection_stats.connections))
    /\ [][/\ \A r \in RoundIds :
                RoundReturns(r) =>
                    /\ active_connections' = active_connections \ rounds[r].failed
                    /\ connection_info' = connection_info \ rounds[r].failed
                    /\ IF r = HbRound THEN hbpc' = "sleep"
                       ELSE tasks'[r].st = "ok"
          /\ \A c \in Conns :
                /\ HandlerDisconnects(c) =>
                      /\ active_connections' = active_connections \ {c}
                      /\ connection_info' = connection_info \ {c}
                /\ (hpc[c] # "init" /\ c \notin active_connections) =>
                      c \notin active_connections']_vars

\* connection 1 failed in an order_change round and in the heartbeat round
\* that overlaps it, and its handler has already removed it; both rounds
\* have made all their sends and are about to remove it again, and
\* connection 2 is registered with its metadata
C28_Witness ==
    /\ hpc[1] = "closed"
    /\ active_connections = {2}
    /\ connection_info = {2}
    /\ rounds[HbRound].on /\ rounds[HbRound].pending = {}
    /\ 1 \in rounds[HbRound].failed
    /\ rounds[1].on /\ rounds[1].pending = {}
    /\ 1 \in rounds[1].failed
    /\ get_connection_stats.total_connections = 1

====
